---- MODULE Spec2Model ----
(***************************************************************************)
(* The llama.cpp JNI bridge (llama_jni.cpp): the session globals g_model,  *)
(* g_ctx, g_is_generating, g_should_stop and g_mutex, the native calls     *)
(* load / unload / generate / stop running on separate threads, and the    *)
(* text pipeline of nativeGenerate (stop-marker detection, UTF-8           *)
(* reassembly, streaming callback, final cleanup).                         *)
(*                                                                         *)
(* A std::string is a sequence of bytes (0..255).  A handle is 0 for       *)
(* nullptr and k > 0 for the object created by the k-th load call.         *)
(***************************************************************************)
EXTENDS Integers, Sequences, FiniteSets, TLC

(* ------------------------------ bounds -------------------------------- *)

\* generate calls per behaviour
MaxCalls == 1
\* load calls per behaviour
MaxLoads == 2
\* largest positive maxTokens argument
MaxTokens == 2
\* pieces a stop-marker script is split into
MaxPieces == 3
\* bytes of text in a UTF-8 script
MaxBytes == 4
\* characters in a valid UTF-8 text given to makeValidUtf8 in two parts
MaxChars == 3

(* ------------------------- program constants -------------------------- *)

\* recent_output keeps the last 50 bytes
RecentMax == 50
\* max_gen when maxTokens <= 0
DefaultMaxGen == 512

npos == -1

IM_END == <<60, 124, 105, 109, 95, 101, 110, 100, 124, 62>>
IM_START == <<60, 124, 105, 109, 95, 115, 116, 97, 114, 116, 124, 62>>
IM_END_PARTIAL == <<60, 124, 105, 109, 95, 101, 110, 100>>
IM_START_PARTIAL == <<60, 124, 105, 109, 95, 115, 116, 97, 114, 116>>
IM_PREFIX == <<60, 124, 105, 109, 95>>

ERR_NO_MODEL ==
  <<91, 69, 114, 114, 111, 114, 58, 32, 78, 111, 32, 109, 111, 100, 101, 108,
    32, 108, 111, 97, 100, 101, 100, 93>>
ERR_TOKENIZE ==
  <<91, 69, 114, 114, 111, 114, 58, 32, 84, 111, 107, 101, 110, 105, 122, 97,
    116, 105, 111, 110, 32, 102, 97, 105, 108, 101, 100, 93>>
ERR_EVAL ==
  <<91, 69, 114, 114, 111, 114, 58, 32, 80, 114, 111, 109, 112, 116, 32, 101,
    118, 97, 108, 117, 97, 116, 105, 111, 110, 32, 102, 97, 105, 108, 101,
    100, 93>>

(* --------------------------- std::string ------------------------------ *)

\* s.substr(pos): the bytes from 0-based position pos to the end
SubstrFrom(s, pos) == SubSeq(s, pos + 1, Len(s))

\* s.substr(0, n): the first n bytes
SubstrTo(s, n) == SubSeq(s, 1, n)

\* the strings of a sequence of strings, joined
RECURSIVE Concat(_)
Concat(ss) == IF ss = <<>> THEN <<>> ELSE Head(ss) \o Concat(Tail(ss))

\* pat occurs in s at 0-based position p
MatchAt(s, pat, p) ==
  /\ p >= 0
  /\ p + Len(pat) <= Len(s)
  /\ \A k \in 1..Len(pat) : s[p + k] = pat[k]

\* s.find(pat): the first position of pat in s, or npos
Find(s, pat) ==
  LET hits == {p \in 0..Len(s) : MatchAt(s, pat, p)}
  IN  IF hits = {} THEN npos
      ELSE CHOOSE p \in hits : \A q \in hits : p <= q

\* s.rfind(pat): the last position of pat in s, or npos
RFind(s, pat) ==
  LET hits == {p \in 0..Len(s) : MatchAt(s, pat, p)}
  IN  IF hits = {} THEN npos
      ELSE CHOOSE p \in hits : \A q \in hits : p >= q

(* ------------------------------ UTF-8 --------------------------------- *)

\* (c & 0xC0) == 0x80
IsContinuation(c) == c >= 128 /\ c <= 191

\* the length the lead byte c announces; 0 for a byte the scan skips
\* (a continuation byte without start, or an invalid start byte)
CharLen(c) ==
  IF c < 128 THEN 1
  ELSE IF c >= 192 /\ c <= 223 THEN 2
  ELSE IF c >= 224 /\ c <= 239 THEN 3
  ELSE IF c >= 240 /\ c <= 247 THEN 4
  ELSE 0

\* one pass through the body of the while loop of getValidUtf8Length, at
\* position i with valid_len: the new i and valid_len (after the break the
\* loop is over: i is the length)
Utf8Step(data, i, valid_len) ==
  LET char_len == CharLen(data[i + 1])
  IN  IF char_len = 0 THEN [i |-> i + 1, valid_len |-> valid_len]
      ELSE IF i + char_len > Len(data)
           THEN [i |-> Len(data), valid_len |-> valid_len]
      ELSE IF \A j \in 1..(char_len - 1) : IsContinuation(data[i + j + 1])
           THEN [i |-> i + char_len, valid_len |-> i + char_len]
           ELSE [i |-> i + 1, valid_len |-> valid_len]

\* the while loop of getValidUtf8Length run from st (where lo <= st.i) for as
\* long as i < hi; the passes are evaluated half of the range at a time, so
\* that a long string does not nest one evaluation per byte, and the state
\* after the first half is bound as a value, so that it is computed once
RECURSIVE Utf8Scan(_, _, _, _)
Utf8Scan(data, st, lo, hi) ==
  IF st.i >= hi THEN st
  ELSE IF hi - lo <= 1 THEN Utf8Step(data, st.i, st.valid_len)
  ELSE LET mid == (lo + hi) \div 2
       IN  CHOOSE end \in {Utf8Scan(data, half, mid, hi) :
                             half \in {Utf8Scan(data, st, lo, mid)}} : TRUE

\* getValidUtf8Length(data, len); the string is bound as a value, so that the
\* expression giving it is evaluated once
getValidUtf8Length(data) ==
  CHOOSE valid_len \in
    {Utf8Scan(str, [i |-> 0, valid_len |-> 0], 0, Len(str)).valid_len :
       str \in {data}} : TRUE

\* makeValidUtf8 without the bytes carried in incomplete_buffer put in front
\* of input
makeValidUtf8DropsCarried(input, incomplete_buffer) ==
  LET combined == input
      valid_len == getValidUtf8Length(combined)
  IN  IF combined = <<>> THEN [out |-> <<>>, buf |-> <<>>]
      ELSE [out |-> SubstrTo(combined, valid_len),
            buf |-> IF valid_len < Len(combined)
                    THEN SubstrFrom(combined, valid_len)
                    ELSE <<>>]

\* makeValidUtf8(input, incomplete_buffer): the returned string and the new
\* incomplete_buffer
makeValidUtf8(input, incomplete_buffer) ==
  LET combined == incomplete_buffer \o input
      valid_len == getValidUtf8Length(combined)
  IN  IF combined = <<>> THEN [out |-> <<>>, buf |-> <<>>]
      ELSE [out |-> SubstrTo(combined, valid_len),
            buf |-> IF valid_len < Len(combined)
                    THEN SubstrFrom(combined, valid_len)
                    ELSE <<>>]

(* --------------------------- model outputs ---------------------------- *)

\* "Hi there!"
HI_THERE == <<72, 105, 32, 116, 104, 101, 114, 101, 33>>

\* every way of cutting s into exactly k non-empty consecutive pieces
RECURSIVE SplitsOf(_, _)
SplitsOf(s, k) ==
  IF k = 1 THEN IF s = <<>> THEN {} ELSE {<<s>>}
  ELSE UNION { { <<SubstrTo(s, n)>> \o rest :
                   rest \in SplitsOf(SubstrFrom(s, n), k - 1) } :
               n \in 1..(Len(s) - (k - 1)) }

\* every sequence over S of length at most n
RECURSIVE SeqsUpTo(_, _)
SeqsUpTo(S, n) ==
  IF n = 0 THEN {<<>>}
  ELSE LET shorter == SeqsUpTo(S, n - 1)
       IN  shorter \cup {Append(q, e) : q \in shorter, e \in S}

\* what the sampler produces in the session specification: "Hi" tokens, then
\* an end-of-generation token
SessionScripts == {[k \in 1..n |-> <<72, 105>>] : n \in 0..MaxTokens}

\* the texts "Hi there!<|im_end|>" and "Hi there!<|im_start|>", and a text
\* that ends inside a marker ("Hi there!<|im"), cut into pieces
StopTexts ==
  {HI_THERE \o IM_END, HI_THERE \o IM_START, HI_THERE \o SubstrTo(IM_END, 4)}
StopScripts == UNION {SplitsOf(t, k) : t \in StopTexts, k \in 1..MaxPieces}

\* one character of each length getValidUtf8Length knows: 'A', U+00E9,
\* U+20AC, U+1F600
Utf8Chars ==
  {<<65>>, <<195, 169>>, <<226, 130, 172>>, <<240, 159, 152, 128>>}

\* the valid UTF-8 texts of at most n of these characters
ValidTexts(n) == {Concat(cs) : cs \in SeqsUpTo(Utf8Chars, n)}

\* each of them cut in two at each byte position, the ends included
TwoPushInputs(n) ==
  UNION {{<<SubstrTo(s, k), SubstrFrom(s, k)>> : k \in 0..Len(s)} :
           s \in ValidTexts(n)}

\* 'A', a continuation byte, the lead bytes of 2-, 3- and 4-byte characters,
\* an invalid start byte
Utf8Bytes == {65, 128, 195, 226, 240, 255}
Utf8Texts(n) == SeqsUpTo(Utf8Bytes, n) \ {<<>>}
Utf8Scripts(n) == UNION {SplitsOf(t, k) : t \in Utf8Texts(n), k \in 1..n}

\* a sampler that never produces an end-of-generation token within the
\* longest run the loop allows: one more 'A' token than DefaultMaxGen
LimitScripts == {[k \in 1..(DefaultMaxGen + 1) |-> <<65>>]}

\* a token whose text is "<|im_end|>" and after it as many 'A' as it takes for
\* the last RecentMax bytes not to hold the marker whole, then a "Hi" token
LongPiece == IM_END \o [k \in 1..(RecentMax - Len(IM_END) + 1) |-> 65]
LongPieceScripts == {<<LongPiece, <<72, 105>>>>}

\* the maxTokens arguments tried: 0 (use the default) and 1..MaxTokens
MaxTokensArgs == 0..MaxTokens

\* those tried with the sampler that does not stop: a negative one as well
LimitTokensArgs == {-1} \cup MaxTokensArgs

(* ------------------------------ state --------------------------------- *)

\* the thread calling nativeLoadModel and the thread calling nativeUnloadModel
Loader == 1
Unloader == 2
LifeThreads == {Loader, Unloader}
NoThread == 0

VARIABLES
  g_model,          \* llama_model*: 0 is nullptr
  g_ctx,            \* llama_context*: 0 is nullptr
  g_is_generating,  \* std::atomic<bool>
  g_should_stop,    \* std::atomic<bool>
  g_mutex,          \* the thread holding g_mutex, or NoThread
  pc_life,          \* where each thread calling load / unload stands
  life_ret,         \* what each thread's last nativeLoadModel returned
  loads,            \* nativeLoadModel calls so far
  load_prev,        \* <<g_model, g_ctx>> when the latest load began (history)
  unload_during_gen,\* the generate call the running unload began during (history)
  model_frees,      \* llama_model_free calls on the latest load's model (history)
  pc,               \* where the thread calling nativeGenerate stands
  calls,            \* nativeGenerate calls so far
  max_tokens,       \* jint maxTokens
  max_gen,          \* const int max_gen
  i,                \* the for loop's counter
  has_cb,           \* callback != nullptr && onTokenMethod != nullptr
  script,           \* the tokens the sampler will still produce
  result,           \* std::string result
  recent_output,    \* std::string recent_output
  utf8_buffer,      \* std::string utf8_buffer
  pending_output,   \* std::string pending_output
  sink,             \* the strings passed to callback.onToken, in order
  ret,              \* the string nativeGenerate returned
  exit,             \* why the call ended (history)
  pieces_log,       \* the pieces appended to result, in order (history)
  emit_log,         \* per appended piece, the chunk sent on it (history)
  released_in_use,  \* who released a handle during a generate call (history)
  stop_seen,        \* stop was requested while g_is_generating (history)
  iters_after_stop, \* iterations begun after that request (history)
  sampled           \* tokens sampled by the running call (history)

session_vars == <<g_model, g_ctx, g_is_generating, g_should_stop, g_mutex>>
life_hist == <<load_prev, unload_during_gen, model_frees>>
life_vars == <<pc_life, life_ret, loads, life_hist>>
text_vars ==
  <<result, recent_output, utf8_buffer, pending_output, sink, pieces_log,
    emit_log>>
call_vars == <<calls, max_tokens, max_gen, has_cb, script>>
vars ==
  <<g_model, g_ctx, g_is_generating, g_should_stop, g_mutex, pc_life,
    life_ret, loads, load_prev, unload_during_gen, model_frees, pc, calls,
    max_tokens, max_gen, i, has_cb, script, result, recent_output,
    utf8_buffer, pending_output, sink, ret, exit, pieces_log, emit_log,
    released_in_use, stop_seen, iters_after_stop, sampled>>

\* static initialisers of the globals; no native call made yet
InitCommon ==
  /\ g_is_generating = FALSE
  /\ g_should_stop = FALSE
  /\ g_mutex = NoThread
  /\ pc_life = [t \in LifeThreads |-> "idle"]
  /\ life_ret = [t \in LifeThreads |-> "none"]
  /\ loads = 0
  /\ load_prev = <<0, 0>>
  /\ unload_during_gen = 0
  /\ model_frees = 0
  /\ pc = "idle"
  /\ calls = 0
  /\ max_tokens = 0
  /\ max_gen = 0
  /\ i = 0
  /\ has_cb = FALSE
  /\ script = <<>>
  /\ result = <<>>
  /\ recent_output = <<>>
  /\ utf8_buffer = <<>>
  /\ pending_output = <<>>
  /\ sink = <<>>
  /\ ret = <<>>
  /\ exit = "none"
  /\ pieces_log = <<>>
  /\ emit_log = <<>>
  /\ released_in_use = {}
  /\ stop_seen = FALSE
  /\ iters_after_stop = 0
  /\ sampled = 0

Init ==
  /\ InitCommon
  /\ g_model = 0
  /\ g_ctx = 0

\* a session with a model loaded, as a successful nativeLoadModel leaves it
InitLoaded ==
  /\ InitCommon
  /\ g_model = 1
  /\ g_ctx = 1

(* -------------------- nativeGenerate: text pipeline ------------------- *)

\* recent_output = recent_output.substr(recent_output.length() - 50)
TrimRecent(r) ==
  IF Len(r) > RecentMax THEN SubstrFrom(r, Len(r) - RecentMax) ELSE r

\* pos = res.rfind(pat); if (pos != npos) res = res.substr(0, pos)
CutAtLast(res, pat) ==
  LET pos == RFind(res, pat)
  IN  IF pos # npos THEN SubstrTo(res, pos) ELSE res

\* the body of one "marker detected" branch: cut at the full marker, then at
\* its partial form
RemoveMarker(res, marker, partial) ==
  CutAtLast(CutAtLast(res, marker), partial)

\* result after the two detection branches, given the updated recent_output
AfterDetection(res, recent) ==
  LET r1 == IF Find(recent, IM_END) # npos
            THEN RemoveMarker(res, IM_END, IM_END_PARTIAL) ELSE res
  IN  IF Find(recent, IM_START) # npos
      THEN RemoveMarker(r1, IM_START, IM_START_PARTIAL) ELSE r1

\* bool should_stop after the two detection branches
ShouldStop(recent) ==
  Find(recent, IM_END) # npos \/ Find(recent, IM_START) # npos

\* while ((pos = result.find("<|im_")) != npos) result = result.substr(0, pos)
RECURSIVE FinalCleanup(_)
FinalCleanup(res) ==
  LET pos == Find(res, IM_PREFIX)
  IN  IF pos # npos THEN FinalCleanup(SubstrTo(res, pos)) ELSE res

\* std::string valid_result = makeValidUtf8(result, dummy_buffer)
ValidResult(res) == makeValidUtf8(FinalCleanup(res), <<>>).out

(* ------------------------- nativeGenerate ----------------------------- *)

Alive == pc # "crashed"

\* between passing the model-loaded check and returning
InFlight ==
  pc \in {"set_generating", "clear_stop", "tokenize", "prime", "loop",
          "sample", "decode", "flush", "finish"}

\* the caller makes one generate call at a time
CanCall == pc \in {"idle", "done"} /\ calls < MaxCalls

\* a new call: the per-call locals and histories start over
NewCall(scr, mt, cb) ==
  /\ CanCall
  /\ calls' = calls + 1
  /\ script' = scr
  /\ max_tokens' = mt
  /\ max_gen' = IF mt > 0 THEN mt ELSE DefaultMaxGen
  /\ has_cb' = cb
  /\ i' = 0
  /\ result' = <<>>
  /\ recent_output' = <<>>
  /\ utf8_buffer' = <<>>
  /\ pending_output' = <<>>
  /\ sink' = <<>>
  /\ pieces_log' = <<>>
  /\ emit_log' = <<>>
  /\ released_in_use' = {}
  /\ stop_seen' = FALSE
  /\ iters_after_stop' = 0
  /\ sampled' = 0

\* if (!g_model || !g_ctx) return "[Error: No model loaded]"
GenNoModel ==
  /\ NewCall(<<>>, 0, FALSE)
  /\ g_model = 0 \/ g_ctx = 0
  /\ ret' = ERR_NO_MODEL
  /\ exit' = "no_model"
  /\ pc' = "done"
  /\ UNCHANGED <<session_vars, life_vars>>

\* the check passes
GenBegin(scr, mt, cb) ==
  /\ NewCall(scr, mt, cb)
  /\ g_model # 0 /\ g_ctx # 0
  /\ ret' = <<>>
  /\ exit' = "none"
  /\ pc' = "set_generating"
  /\ UNCHANGED <<session_vars, life_vars>>

\* g_is_generating = true
GenSetGenerating ==
  /\ pc = "set_generating"
  /\ g_is_generating' = TRUE
  /\ pc' = "clear_stop"
  /\ UNCHANGED <<g_model, g_ctx, g_should_stop, g_mutex, life_vars, call_vars,
                 i, text_vars, ret, exit, released_in_use, stop_seen,
                 iters_after_stop,
                 sampled>>

\* g_should_stop = false
GenClearStop ==
  /\ pc = "clear_stop"
  /\ g_should_stop' = FALSE
  /\ pc' = "tokenize"
  /\ UNCHANGED <<g_model, g_ctx, g_is_generating, g_mutex, life_vars,
                 call_vars, i, text_vars, ret, exit, released_in_use,
                 stop_seen, iters_after_stop,
                 sampled>>

\* llama_tokenize returned n_tokens >= 0
GenTokenizeOk ==
  /\ pc = "tokenize"
  /\ pc' = "prime"
  /\ UNCHANGED <<session_vars, life_vars, call_vars, i, text_vars, ret, exit,
                 released_in_use, stop_seen, iters_after_stop,
                 sampled>>

\* a tokenization failure returned as an empty text
TokenizeFailReturnsEmpty == <<>>

\* the value returned when n_tokens < 0
TokenizeFailReturn == ERR_TOKENIZE

\* n_tokens < 0: g_is_generating = false; return "[Error: Tokenization failed]"
GenTokenizeFail ==
  /\ pc = "tokenize"
  /\ g_is_generating' = FALSE
  /\ ret' = TokenizeFailReturn
  /\ exit' = "tokenize_fail"
  /\ pc' = "done"
  /\ UNCHANGED <<g_model, g_ctx, g_should_stop, g_mutex, life_vars, call_vars,
                 i, text_vars, released_in_use, stop_seen, iters_after_stop,
                 sampled>>

\* llama_decode(g_ctx, batch) == 0 on the prompt; sampler and buffers set up
GenPrimeOk ==
  /\ pc = "prime"
  /\ pc' = "loop"
  /\ UNCHANGED <<session_vars, life_vars, call_vars, i, text_vars, ret, exit,
                 released_in_use, stop_seen, iters_after_stop,
                 sampled>>

\* llama_decode != 0 on the prompt, returning without clearing g_is_generating
GenPrimeFailKeepsGenerating ==
  /\ pc = "prime"
  /\ ret' = ERR_EVAL
  /\ exit' = "eval_fail"
  /\ pc' = "done"
  /\ UNCHANGED <<session_vars, life_vars, call_vars, i, text_vars,
                 released_in_use, stop_seen, iters_after_stop, sampled>>

\* llama_decode != 0 on the prompt: g_is_generating = false; return the error
GenPrimeFail ==
  /\ pc = "prime"
  /\ g_is_generating' = FALSE
  /\ ret' = ERR_EVAL
  /\ exit' = "eval_fail"
  /\ pc' = "done"
  /\ UNCHANGED <<g_model, g_ctx, g_should_stop, g_mutex, life_vars, call_vars,
                 i, text_vars, released_in_use, stop_seen, iters_after_stop,
                 sampled>>

\* the loop's condition without the test of g_should_stop
LoopConditionNoStop == i < max_gen

\* the loop's condition without the bound on i
LoopConditionNoLimit == ~g_should_stop

\* the for loop's condition: i < max_gen && !g_should_stop
LoopCondition == i < max_gen /\ ~g_should_stop

GenLoopHead ==
  /\ pc = "loop"
  /\ IF LoopCondition
     THEN /\ pc' = "sample"
          /\ iters_after_stop' = iters_after_stop + (IF stop_seen THEN 1 ELSE 0)
          /\ exit' = exit
     ELSE /\ pc' = "flush"
          /\ exit' = IF i >= max_gen THEN "limit" ELSE "cancel"
          /\ iters_after_stop' = iters_after_stop
  /\ UNCHANGED <<session_vars, life_vars, call_vars, i, text_vars, ret,
                 released_in_use, stop_seen, sampled>>

\* llama_vocab_is_eog(vocab, new_token): break
GenSampleEog ==
  /\ pc = "sample"
  /\ sampled' = sampled + 1
  /\ script = <<>>
  /\ pc' = "flush"
  /\ exit' = "eos"
  /\ UNCHANGED <<session_vars, life_vars, call_vars, i, text_vars, ret,
                 released_in_use, stop_seen, iters_after_stop>>

\* llama_token_to_piece returned n < 0: break
GenPieceFail ==
  /\ pc = "sample"
  /\ sampled' = sampled + 1
  /\ script # <<>>
  /\ script' = Tail(script)
  /\ pc' = "flush"
  /\ exit' = "piece_fail"
  /\ UNCHANGED <<session_vars, life_vars, calls, max_tokens, max_gen,
                 has_cb, i,
                 text_vars, ret, released_in_use, stop_seen, iters_after_stop>>

\* the chunk the streaming callback gets for pending (empty: no call)
StreamChunk(pending, buffer) == makeValidUtf8(pending, buffer).out

\* a token with text: stop-marker detection, then either break or append the
\* piece and stream what is valid
GenSamplePiece ==
  /\ pc = "sample"
  /\ sampled' = sampled + 1
  /\ script # <<>>
  /\ script' = Tail(script)
  /\ LET piece == Head(script)
         recent == TrimRecent(recent_output \o piece)
         pending == pending_output \o piece
         chunk == StreamChunk(pending, utf8_buffer)
     IN  /\ recent_output' = recent
         /\ IF ShouldStop(recent)
            THEN /\ result' = AfterDetection(result, recent)
                 /\ pc' = "flush"
                 /\ exit' = "marker"
                 /\ UNCHANGED <<pending_output, utf8_buffer, sink, pieces_log,
                                emit_log>>
            ELSE /\ result' = result \o piece
                 /\ pieces_log' = Append(pieces_log, piece)
                 /\ pc' = "decode"
                 /\ exit' = exit
                 /\ IF has_cb
                    THEN /\ utf8_buffer' = makeValidUtf8(pending, utf8_buffer).buf
                         /\ pending_output' =
                              IF chunk # <<>> THEN <<>> ELSE pending
                         /\ sink' = IF chunk # <<>> THEN Append(sink, chunk)
                                    ELSE sink
                         /\ emit_log' = Append(emit_log, chunk)
                    ELSE /\ pending_output' = pending
                         /\ emit_log' = Append(emit_log, <<>>)
                         /\ UNCHANGED <<utf8_buffer, sink>>
  /\ UNCHANGED <<session_vars, life_vars, calls, max_tokens, max_gen,
                 has_cb, i, ret,
                 released_in_use, stop_seen, iters_after_stop>>

\* llama_decode(g_ctx, new_batch) == 0: next iteration (i++)
GenDecodeOk ==
  /\ pc = "decode"
  /\ i' = i + 1
  /\ pc' = "loop"
  /\ UNCHANGED <<session_vars, life_vars, call_vars, text_vars, ret, exit,
                 released_in_use, stop_seen, iters_after_stop,
                 sampled>>

\* llama_decode != 0: break, with the piece of the failed token taken back out
\* of result
GenDecodeFailDropsPiece ==
  /\ pc = "decode"
  /\ pc' = "flush"
  /\ exit' = "decode_fail"
  /\ result' =
       SubstrTo(result, Len(result) - Len(pieces_log[Len(pieces_log)]))
  /\ UNCHANGED <<session_vars, life_vars, call_vars, i, recent_output,
                 utf8_buffer, pending_output, sink, pieces_log, emit_log, ret,
                 released_in_use, stop_seen, iters_after_stop, sampled>>

\* llama_decode != 0: break
GenDecodeFail ==
  /\ pc = "decode"
  /\ pc' = "flush"
  /\ exit' = "decode_fail"
  /\ UNCHANGED <<session_vars, life_vars, call_vars, i, text_vars, ret,
                 released_in_use, stop_seen, iters_after_stop,
                 sampled>>

\* the flush calling the callback whether or not there is text to send
GenFlushSendsEmpty ==
  /\ pc = "flush"
  /\ pc' = "finish"
  /\ IF has_cb
     THEN LET mv == makeValidUtf8(pending_output, utf8_buffer)
          IN  /\ utf8_buffer' = mv.buf
              /\ sink' = Append(sink, mv.out)
     ELSE UNCHANGED <<utf8_buffer, sink>>
  /\ UNCHANGED <<session_vars, life_vars, call_vars, i, result, recent_output,
                 pending_output, pieces_log, emit_log, ret, exit,
                 released_in_use, stop_seen, iters_after_stop, sampled>>

\* flush any remaining pending output to the callback
GenFlush ==
  /\ pc = "flush"
  /\ pc' = "finish"
  /\ IF has_cb /\ pending_output # <<>>
     THEN LET mv == makeValidUtf8(pending_output, utf8_buffer)
          IN  /\ utf8_buffer' = mv.buf
              /\ sink' = IF mv.out # <<>> THEN Append(sink, mv.out) ELSE sink
     ELSE UNCHANGED <<utf8_buffer, sink>>
  /\ UNCHANGED <<session_vars, life_vars, call_vars, i, result, recent_output,
                 pending_output, pieces_log, emit_log, ret, exit,
                 released_in_use, stop_seen, iters_after_stop,
                 sampled>>

\* the value returned after the loop
FinishReturn(res) == ValidResult(res)

\* final cleanup, g_is_generating = false, return valid_result
GenFinish ==
  /\ pc = "finish"
  /\ result' = FinalCleanup(result)
  /\ ret' = FinishReturn(result)
  /\ g_is_generating' = FALSE
  /\ pc' = "done"
  /\ UNCHANGED <<g_model, g_ctx, g_should_stop, g_mutex, life_vars, call_vars,
                 i, recent_output, utf8_buffer, pending_output, sink,
                 pieces_log, emit_log, exit, released_in_use, stop_seen,
                 iters_after_stop,
                 sampled>>

\* a llama call on a handle (or on the vocab of a model) that was freed during
\* the call is undefined behaviour: the call may go on as if nothing happened
\* (the steps above) or the process dies
GenCrash ==
  /\ pc \in {"tokenize", "prime", "sample", "decode"}
  /\ released_in_use # {}
  /\ pc' = "crashed"
  /\ UNCHANGED <<session_vars, life_vars, call_vars, i, text_vars, ret, exit,
                 released_in_use, stop_seen, iters_after_stop,
                 sampled>>

(* ----------------------- nativeStopGeneration ------------------------- *)

\* g_should_stop = true
StopGeneration ==
  /\ Alive
  /\ g_should_stop' = TRUE
  /\ stop_seen' = (stop_seen \/ g_is_generating)
  /\ UNCHANGED <<g_model, g_ctx, g_is_generating, g_mutex, life_vars, pc,
                 call_vars, i, text_vars, ret, exit, released_in_use,
                 iters_after_stop, sampled>>

(* ------------------- nativeLoadModel / nativeUnloadModel -------------- *)

gen_vars ==
  <<pc, calls, max_gen, i, has_cb, script, result, recent_output, utf8_buffer,
    pending_output, sink, ret, exit, pieces_log, emit_log, stop_seen,
    iters_after_stop,  sampled, max_tokens>>

\* the history of releases, after thread-op `who` released handle h
Released(who, h) ==
  IF h # 0 /\ InFlight THEN released_in_use \cup {who} ELSE released_in_use

\* the count of llama_model_free calls on the latest load's model, after
\* llama_model_free(h)
ModelFreed(h) == IF h # 0 /\ h = loads THEN model_frees + 1 ELSE model_frees

\* std::lock_guard<std::mutex> lock(g_mutex) in nativeLoadModel
LoadLock(t) ==
  /\ Alive
  /\ pc_life[t] = "idle"
  /\ loads < MaxLoads
  /\ g_mutex = NoThread
  /\ g_mutex' = t
  /\ loads' = loads + 1
  /\ pc_life' = [pc_life EXCEPT ![t] = "l_free_ctx"]
  /\ life_ret' = [life_ret EXCEPT ![t] = "none"]
  /\ UNCHANGED <<g_model, g_ctx, g_is_generating, g_should_stop, gen_vars,
                 released_in_use>>
  /\ load_prev' = <<g_model, g_ctx>>
  /\ model_frees' = 0
  /\ UNCHANGED <<unload_during_gen>>

\* nativeLoadModel going on to load the new model with the old context kept
LoadKeepsCtx(t) ==
  /\ Alive
  /\ pc_life[t] = "l_free_ctx"
  /\ pc_life' = [pc_life EXCEPT ![t] = "l_free_model"]
  /\ UNCHANGED <<session_vars, life_ret, loads, gen_vars, released_in_use,
                 life_hist>>

\* if (g_ctx) { llama_free(g_ctx); g_ctx = nullptr; }
LoadFreeCtx(t) ==
  /\ Alive
  /\ pc_life[t] = "l_free_ctx"
  /\ g_ctx' = 0
  /\ released_in_use' = Released("load", g_ctx)
  /\ pc_life' = [pc_life EXCEPT ![t] = "l_free_model"]
  /\ UNCHANGED <<g_model, g_is_generating, g_should_stop, g_mutex, life_ret,
                 loads, gen_vars>>
  /\ UNCHANGED <<load_prev, unload_during_gen, model_frees>>

\* if (g_model) { llama_model_free(g_model); g_model = nullptr; }
LoadFreeModel(t) ==
  /\ Alive
  /\ pc_life[t] = "l_free_model"
  /\ g_model' = 0
  /\ released_in_use' = Released("load", g_model)
  /\ pc_life' = [pc_life EXCEPT ![t] = "l_load_model"]
  /\ UNCHANGED <<g_ctx, g_is_generating, g_should_stop, g_mutex, life_ret,
                 loads, gen_vars>>
  /\ model_frees' = ModelFreed(g_model)
  /\ UNCHANGED <<load_prev, unload_during_gen>>

\* g_model = llama_model_load_from_file(...) succeeded
LoadModelOk(t) ==
  /\ Alive
  /\ pc_life[t] = "l_load_model"
  /\ g_model' = loads
  /\ pc_life' = [pc_life EXCEPT ![t] = "l_init_ctx"]
  /\ UNCHANGED <<g_ctx, g_is_generating, g_should_stop, g_mutex, life_ret,
                 loads, gen_vars, released_in_use>>
  /\ UNCHANGED <<load_prev, unload_during_gen, model_frees>>

\* llama_model_load_from_file returned nullptr: return JNI_FALSE
LoadModelFail(t) ==
  /\ Alive
  /\ pc_life[t] = "l_load_model"
  /\ g_model' = 0
  /\ g_mutex' = NoThread
  /\ life_ret' = [life_ret EXCEPT ![t] = "false"]
  /\ pc_life' = [pc_life EXCEPT ![t] = "idle"]
  /\ UNCHANGED <<g_ctx, g_is_generating, g_should_stop, loads, gen_vars,
                 released_in_use>>
  /\ UNCHANGED <<load_prev, unload_during_gen, model_frees>>

\* g_ctx = llama_init_from_model(...) succeeded: return JNI_TRUE
LoadCtxOk(t) ==
  /\ Alive
  /\ pc_life[t] = "l_init_ctx"
  /\ g_ctx' = loads
  /\ g_mutex' = NoThread
  /\ life_ret' = [life_ret EXCEPT ![t] = "true"]
  /\ pc_life' = [pc_life EXCEPT ![t] = "idle"]
  /\ UNCHANGED <<g_model, g_is_generating, g_should_stop, loads, gen_vars,
                 released_in_use>>
  /\ UNCHANGED <<load_prev, unload_during_gen, model_frees>>

\* llama_init_from_model returned nullptr, returning JNI_FALSE with the model
\* left as it is
LoadCtxFailLeaksModel(t) ==
  /\ Alive
  /\ pc_life[t] = "l_init_ctx"
  /\ g_ctx' = 0
  /\ g_mutex' = NoThread
  /\ life_ret' = [life_ret EXCEPT ![t] = "false"]
  /\ pc_life' = [pc_life EXCEPT ![t] = "idle"]
  /\ UNCHANGED <<g_model, g_is_generating, g_should_stop, loads, gen_vars,
                 released_in_use, life_hist>>

\* llama_init_from_model returned nullptr: llama_model_free(g_model);
\* g_model = nullptr; return JNI_FALSE
LoadCtxFail(t) ==
  /\ Alive
  /\ pc_life[t] = "l_init_ctx"
  /\ g_ctx' = 0
  /\ g_model' = 0
  /\ released_in_use' = Released("load", g_model)
  /\ g_mutex' = NoThread
  /\ life_ret' = [life_ret EXCEPT ![t] = "false"]
  /\ pc_life' = [pc_life EXCEPT ![t] = "idle"]
  /\ UNCHANGED <<g_is_generating, g_should_stop, loads, gen_vars>>
  /\ model_frees' = ModelFreed(g_model)
  /\ UNCHANGED <<load_prev, unload_during_gen>>

\* std::lock_guard<std::mutex> lock(g_mutex) in nativeUnloadModel
UnloadLock(t) ==
  /\ Alive
  /\ pc_life[t] = "idle"
  /\ g_mutex = NoThread
  /\ g_mutex' = t
  /\ pc_life' = [pc_life EXCEPT ![t] = "u_set_stop"]
  /\ UNCHANGED <<g_model, g_ctx, g_is_generating, g_should_stop, life_ret,
                 loads, gen_vars, released_in_use>>
  /\ unload_during_gen' = IF InFlight THEN calls ELSE 0
  /\ UNCHANGED <<load_prev, model_frees>>

\* g_should_stop = true
UnloadSetStop(t) ==
  /\ Alive
  /\ pc_life[t] = "u_set_stop"
  /\ g_should_stop' = TRUE
  /\ pc_life' = [pc_life EXCEPT ![t] = "u_wait"]
  /\ UNCHANGED <<g_model, g_ctx, g_is_generating, g_mutex, life_ret, loads,
                 gen_vars, released_in_use>>
  /\ UNCHANGED <<load_prev, unload_during_gen, model_frees>>

\* while (g_is_generating) sleep_for(10ms): the loop is left when the flag is
\* read false
UnloadWait(t) ==
  /\ Alive
  /\ pc_life[t] = "u_wait"
  /\ ~g_is_generating
  /\ pc_life' = [pc_life EXCEPT ![t] = "u_free_ctx"]
  /\ UNCHANGED <<session_vars, life_ret, loads, gen_vars, released_in_use>>
  /\ UNCHANGED <<load_prev, unload_during_gen, model_frees>>

\* if (g_ctx) { llama_free(g_ctx); g_ctx = nullptr; }
UnloadFreeCtx(t) ==
  /\ Alive
  /\ pc_life[t] = "u_free_ctx"
  /\ g_ctx' = 0
  /\ released_in_use' = Released("unload", g_ctx)
  /\ pc_life' = [pc_life EXCEPT ![t] = "u_free_model"]
  /\ UNCHANGED <<g_model, g_is_generating, g_should_stop, g_mutex, life_ret,
                 loads, gen_vars>>
  /\ UNCHANGED <<load_prev, unload_during_gen, model_frees>>

\* if (g_model) { llama_model_free(g_model); g_model = nullptr; }; return
UnloadFreeModel(t) ==
  /\ Alive
  /\ pc_life[t] = "u_free_model"
  /\ g_model' = 0
  /\ released_in_use' = Released("unload", g_model)
  /\ g_mutex' = NoThread
  /\ pc_life' = [pc_life EXCEPT ![t] = "idle"]
  /\ UNCHANGED <<g_ctx, g_is_generating, g_should_stop, life_ret, loads,
                 gen_vars>>
  /\ unload_during_gen' = 0
  /\ model_frees' = ModelFreed(g_model)
  /\ UNCHANGED <<load_prev>>

\* nativeIsModelLoaded: g_model != nullptr && g_ctx != nullptr
IsModelLoaded == g_model # 0 /\ g_ctx # 0

(* --------------------------- specifications --------------------------- *)

\* the steps of a generate call once it has begun
GenStep ==
  \/ GenSetGenerating
  \/ GenClearStop
  \/ GenTokenizeOk
  \/ GenPrimeOk
  \/ GenLoopHead
  \/ GenSampleEog
  \/ GenSamplePiece
  \/ GenDecodeOk
  \/ GenDecodeFail
  \/ GenFlush
  \/ GenFinish

\* a generate call, for each output of the sampler, each maxTokens, with and
\* without a callback
GenBeginSession ==
  /\ CanCall
  /\ \E scr \in SessionScripts, mt \in MaxTokensArgs, cb \in BOOLEAN :
       GenBegin(scr, mt, cb)

\* the whole bridge: generate, stop, load and unload on their own threads
Next ==
  \/ GenNoModel
  \/ GenBeginSession
  \/ GenStep
  \/ GenTokenizeFail
  \/ GenPrimeFail
  \/ GenPieceFail
  \/ GenCrash
  \/ StopGeneration
  \/ LoadLock(Loader)
  \/ LoadFreeCtx(Loader)
  \/ LoadFreeModel(Loader)
  \/ LoadModelOk(Loader)
  \/ LoadModelFail(Loader)
  \/ LoadCtxOk(Loader)
  \/ LoadCtxFail(Loader)
  \/ UnloadLock(Unloader)
  \/ UnloadSetStop(Unloader)
  \/ UnloadWait(Unloader)
  \/ UnloadFreeCtx(Unloader)
  \/ UnloadFreeModel(Unloader)

Spec == Init /\ [][Next]_vars

\* one session with a model loaded, generating texts that end in a stop
\* marker, cut into pieces in every way, or a long token with a marker in
\* it; stop requests at any moment
GenBeginStop ==
  /\ calls = 0
  /\ \E scr \in StopScripts \cup LongPieceScripts, mt \in MaxTokensArgs :
       GenBegin(scr, mt, TRUE)

NextStop ==
  \/ GenBeginStop
  \/ GenStep
  \/ StopGeneration

SpecStop == InitLoaded /\ [][NextStop]_vars

\* one session with a model loaded, generating arbitrary bytes cut into pieces
\* in every way, streamed to a callback
GenBeginUtf8 ==
  /\ calls = 0
  /\ \E scr \in Utf8Scripts(MaxBytes) : GenBegin(scr, 0, TRUE)

NextUtf8 ==
  \/ GenBeginUtf8
  \/ GenStep

SpecUtf8 == InitLoaded /\ [][NextUtf8]_vars

\* one session with a model loaded and a sampler that goes on producing text:
\* no stop request, no end-of-generation token, no stop marker, no failure
GenBeginLimit ==
  /\ calls = 0
  /\ \E scr \in LimitScripts, mt \in LimitTokensArgs, cb \in BOOLEAN :
       GenBegin(scr, mt, cb)

NextLimit ==
  \/ GenBeginLimit
  \/ GenSetGenerating
  \/ GenClearStop
  \/ GenTokenizeOk
  \/ GenPrimeOk
  \/ GenLoopHead
  \/ GenSamplePiece
  \/ GenDecodeOk
  \/ GenFlush
  \/ GenFinish

\* the thread running nativeGenerate is scheduled and its llama calls return
SpecLimit == InitLoaded /\ [][NextLimit]_vars /\ WF_vars(NextLimit)

\* makeValidUtf8 on its own: the two parts of a valid text are still to be
\* passed to it (script), with an empty incomplete_buffer (utf8_buffer)
InitPush ==
  /\ g_model = 1
  /\ g_ctx = 1
  /\ g_is_generating = FALSE
  /\ g_should_stop = FALSE
  /\ g_mutex = NoThread
  /\ pc_life = [t \in LifeThreads |-> "idle"]
  /\ life_ret = [t \in LifeThreads |-> "none"]
  /\ loads = 0
  /\ load_prev = <<0, 0>>
  /\ unload_during_gen = 0
  /\ model_frees = 0
  /\ pc = "idle"
  /\ calls = 0
  /\ max_tokens = 0
  /\ max_gen = 0
  /\ i = 0
  /\ has_cb = FALSE
  /\ script \in TwoPushInputs(MaxChars)
  /\ result = <<>>
  /\ recent_output = <<>>
  /\ utf8_buffer = <<>>
  /\ pending_output = <<>>
  /\ sink = <<>>
  /\ ret = <<>>
  /\ exit = "none"
  /\ pieces_log = <<>>
  /\ emit_log = <<>>
  /\ released_in_use = {}
  /\ stop_seen = FALSE
  /\ iters_after_stop = 0
  /\ sampled = 0

\* makeValidUtf8(input, incomplete_buffer) called on the next part: the
\* returned string goes to emit_log, the part to pieces_log
CallMakeValidUtf8 ==
  /\ script # <<>>
  /\ LET mv == makeValidUtf8(Head(script), utf8_buffer)
     IN  /\ utf8_buffer' = mv.buf
         /\ emit_log' = Append(emit_log, mv.out)
  /\ pieces_log' = Append(pieces_log, Head(script))
  /\ script' = Tail(script)
  /\ UNCHANGED <<session_vars, life_vars, pc, calls, max_tokens, max_gen,
                 has_cb, i, result, recent_output, pending_output, sink, ret,
                 exit, released_in_use, stop_seen, iters_after_stop, sampled>>

NextPush == CallMakeValidUtf8

SpecPush == InitPush /\ [][NextPush]_vars

(* ------------------------------ claims -------------------------------- *)

IsPrefix(p, s) == Len(p) <= Len(s) /\ SubstrTo(s, Len(p)) = p
EndsWith(s, t) == Len(t) <= Len(s) /\ SubstrFrom(s, Len(s) - Len(t)) = t
Contains(s, pat) == \E p \in 0..Len(s) : MatchAt(s, pat, p)
Markers == {IM_END, IM_START}

\* the non-empty proper prefixes of the markers
MarkerFragments == UNION {{SubstrTo(m, n) : n \in 1..(Len(m) - 1)} : m \in Markers}

\* s is a sequence of complete UTF-8 code points: every byte is ASCII or a
\* lead byte followed by exactly the continuation bytes it announces
RECURSIVE WellFormedFrom(_, _)
WellFormedFrom(s, k) ==
  IF k > Len(s) THEN TRUE
  ELSE LET n == CharLen(s[k])
       IN  /\ n > 0
           /\ k + n - 1 <= Len(s)
           /\ \A j \in 1..(n - 1) : IsContinuation(s[k + j])
           /\ WellFormedFrom(s, k + n)

WellFormed(s) == WellFormedFrom(s, 1)

\* s is the beginning of one multi-byte character, with bytes still missing
IncompleteChar(s) ==
  /\ s # <<>>
  /\ CharLen(s[1]) > Len(s)
  /\ \A j \in 2..Len(s) : IsContinuation(s[j])

ErrorReturns == {ERR_NO_MODEL, ERR_TOKENIZE, ERR_EVAL}

\* C1: unload never releases the context or the model while a generate call
\* is in flight (between passing its model-loaded check and returning).
C1_UnloadNeverReleasesInUse == "unload" \notin released_in_use

\* C2: load never releases the context or the model while a generate call is
\* in flight.
C2_LoadNeverReleasesInUse == "load" \notin released_in_use

\* C3: a stop requested while g_is_generating is true is never lost: no
\* sampling iteration begins after it, and generate returns the accumulated
\* text as an ordinary result.
C3_StopNeverLost ==
  /\ iters_after_stop = 0
  /\ (pc = "done" /\ stop_seen /\ exit = "cancel") =>
       (ret \notin ErrorReturns /\ IsPrefix(ret, Concat(pieces_log)))

\* C4: every chunk passed to the callback, in the loop and in the final
\* flush, is a sequence of complete, well-formed UTF-8 code points.
C4_SinkChunksWellFormed == \A k \in 1..Len(sink) : WellFormed(sink[k])

\* C5: when the generated text is "Hi there!" followed by a stop marker,
\* however it is cut into pieces, generate returns exactly "Hi there!".
C5_ReturnsTextBeforeMarker ==
  (pc = "done" /\ exit = "marker") => ret = HI_THERE

\* C6: when a stop marker was generated, what the callback received contains
\* no complete marker and does not end in a leading fragment of a marker that
\* the returned result has removed.
C6_NoMarkerFragmentToSink ==
  (pc = "done" /\ exit = "marker") =>
    LET got == Concat(sink)
    IN  /\ \A m \in Markers : ~Contains(got, m)
        /\ \A f \in MarkerFragments : EndsWith(got, f) => EndsWith(ret, f)

\* C7: on every exit path (end of sequence, stop marker, cancellation, token
\* limit, decode failure) the returned text contains no complete marker and
\* does not end with a started-but-unfinished marker.
C7_NoMarkerInReturn ==
  (pc = "done" /\ exit \in {"eos", "marker", "cancel", "limit", "decode_fail"}) =>
    /\ \A m \in Markers : ~Contains(ret, m)
    /\ \A f \in MarkerFragments : ~EndsWith(ret, f)

\* the tokens j..k of the log carry one multi-byte character cut across them:
\* what came before is complete text, tokens j..k-1 together are only the
\* incomplete beginning of the character, and token k completes it
SplitCharAt(j, k) ==
  /\ j < k
  /\ WellFormed(Concat(SubSeq(pieces_log, 1, j - 1)))
  /\ IncompleteChar(Concat(SubSeq(pieces_log, j, k - 1)))
  /\ WellFormed(Concat(SubSeq(pieces_log, j, k)))

\* C8: when a multi-byte character arrives cut across consecutive tokens, the
\* callback is not invoked on the incomplete tokens, and on the completing
\* token it gets exactly the complete character with that token's other valid
\* text, nothing extra or repeated.
C8_SplitCharDeliveredOnce ==
  \A k \in 1..Len(emit_log) : \A j \in 1..k :
    (has_cb /\ SplitCharAt(j, k)) =>
      /\ \A m \in j..(k - 1) : emit_log[m] = <<>>
      /\ emit_log[k] = Concat(SubSeq(pieces_log, j, k))

\* C9: the chunks the callback received, joined in delivery order, are a
\* prefix of the pieces appended to the result, joined in generation order.
C9_SinkIsPrefixOfGenerated == IsPrefix(Concat(sink), Concat(pieces_log))

\* C10 as stated: every failure of generate (no model, tokenization, prompt
\* evaluation, decode in mid-generation) returns an error outcome.
C10_EveryFailureReturnsError ==
  (pc = "done" /\ exit \in {"no_model", "tokenize_fail", "eval_fail", "decode_fail"}) =>
    ret \in ErrorReturns

\* C10 amended: a failure before sampling returns its fixed error message
\* ("[Error: No model loaded]", "[Error: Tokenization failed]",
\* "[Error: Prompt evaluation failed]"); a decode failure in mid-generation
\* returns the cleaned text accumulated so far, that token's piece included,
\* as an ordinary result.
C10_FailureReturns ==
  pc = "done" =>
    /\ exit = "no_model" => ret = ERR_NO_MODEL
    /\ exit = "tokenize_fail" => ret = ERR_TOKENIZE
    /\ exit = "eval_fail" => ret = ERR_EVAL
    /\ exit = "decode_fail" =>
         (pieces_log # <<>> /\ ret = ValidResult(Concat(pieces_log)))

\* a decode failure after one "Hi" token returned "Hi"
C10_Witness ==
  pc = "done" /\ exit = "decode_fail" /\ ret = <<72, 105>>


\* the step on which nativeGenerate returns because llama_tokenize or the
\* prompt's llama_decode failed
GenFailsEarly == pc \in {"tokenize", "prime"} /\ pc' = "done"

\* C11: when tokenization or the evaluation of the prompt fails, generate
\* returns having sampled no token and called the callback not once, with
\* g_is_generating false and g_model and g_ctx as they were
C11_EarlyFailureIsClean ==
  [][GenFailsEarly =>
       /\ sampled' = 0
       /\ sink' = <<>>
       /\ ~g_is_generating'
       /\ g_model' = g_model
       /\ g_ctx' = g_ctx]_vars

C11_Witness ==
  /\ pc = "done"
  /\ exit = "eval_fail"
  /\ has_cb
  /\ g_model # 0

\* C12: in every state, those between the steps of load and unload included,
\* g_ctx is non-null exactly when g_model is non-null
C12_CtxIffModel == (g_ctx # 0) <=> (g_model # 0)

\* the step on which nativeUnloadModel returns
UnloadReturns ==
  pc_life[Unloader] = "u_free_model" /\ pc_life'[Unloader] = "idle"

\* C13: when an unload that was called during a generate call returns, that
\* generate call has returned, g_ctx was released before g_model, and both
\* handles are null
C13_UnloadWaitsForGeneration ==
  [][(UnloadReturns /\ unload_during_gen # 0) =>
       /\ ~(InFlight' /\ calls' = unload_during_gen)
       /\ g_ctx = 0
       /\ g_ctx' = 0
       /\ g_model' = 0]_vars

\* nativeGenerate is past a failed llama_decode of a sampled token
AfterDecodeFail == InFlight /\ exit = "decode_fail"

\* C14: a failed llama_decode of a sampled token ends the loop and nothing
\* else: no more token is sampled, the call returns the text of every sampled
\* token, that of the failed one included (cleaned as every returned text is),
\* it does not touch g_model and g_ctx, which are still set unless another
\* thread released them, and it leaves g_is_generating false
C14_DecodeFailureEndsOnlyTheCall ==
  [][/\ (pc = "decode" /\ pc' = "flush") =>
          (exit' = "decode_fail" /\ Len(pieces_log') = sampled')
     /\ AfterDecodeFail =>
          /\ sampled' = sampled
          /\ pieces_log' = pieces_log
          /\ pc' \in {pc, "flush", "finish", "done"}
     /\ (AfterDecodeFail /\ pc' = "done") =>
          /\ ret' = ValidResult(Concat(pieces_log))
          /\ pieces_log # <<>>
          /\ ~g_is_generating'
          /\ g_model' = g_model
          /\ g_ctx' = g_ctx
          /\ released_in_use = {} => (g_model' # 0 /\ g_ctx' # 0)]_vars

C14_Witness ==
  /\ pc = "done"
  /\ exit = "decode_fail"
  /\ ret = <<72, 105, 72, 105>>
  /\ g_model # 0
  /\ g_ctx # 0
  /\ ~g_is_generating

\* the step on which nativeLoadModel returns because
\* llama_model_load_from_file failed
LoadFailsOnModel ==
  pc_life[Loader] = "l_load_model" /\ pc_life'[Loader] = "idle"

\* C15 as claimed: when load fails because the model file cannot be loaded,
\* g_model and g_ctx are what they were when the call began
C15_FailedLoadKeepsSession ==
  [][LoadFailsOnModel =>
       (g_model' = load_prev[1] /\ g_ctx' = load_prev[2])]_vars

\* C15: when load fails because the model file cannot be loaded, it returns
\* false with both handles null, whatever was loaded when the call began
C15_FailedLoadEmptiesSession ==
  [][LoadFailsOnModel =>
       /\ life_ret'[Loader] = "false"
       /\ g_model' = 0
       /\ g_ctx' = 0
       /\ g_mutex' = NoThread]_vars

C15_Witness ==
  /\ pc_life[Loader] = "idle"
  /\ life_ret[Loader] = "false"
  /\ model_frees = 0
  /\ load_prev = <<1, 1>>
  /\ g_model = 0
  /\ g_ctx = 0

\* the step on which nativeLoadModel returns because llama_init_from_model
\* failed
LoadFailsOnCtx ==
  /\ pc_life[Loader] = "l_init_ctx"
  /\ pc_life'[Loader] = "idle"
  /\ g_ctx' = 0

\* C16: when the context cannot be created for the model just loaded, load
\* returns false, that model is passed to llama_model_free on this step and
\* never again, and both handles are null, so that isLoaded is false
C16_ContextFailureRollsBack ==
  [][/\ model_frees' <= 1
     /\ LoadFailsOnCtx =>
          /\ life_ret'[Loader] = "false"
          /\ g_model = loads
          /\ model_frees = 0
          /\ model_frees' = 1
          /\ g_model' = 0
          /\ g_ctx' = 0
          /\ ~IsModelLoaded']_vars

C16_Witness ==
  /\ pc_life[Loader] = "idle"
  /\ life_ret[Loader] = "false"
  /\ model_frees = 1
  /\ ~IsModelLoaded

\* C17: a call whose first sampled token is an end-of-generation token
\* returns the empty string, which is none of the error messages, and has not
\* called the callback, whatever maxTokens is
C17_EosFirstReturnsEmpty ==
  (pc = "done" /\ exit = "eos" /\ sampled = 1) =>
    (ret = <<>> /\ ret \notin ErrorReturns /\ sink = <<>>)

C17_Witness ==
  /\ pc = "done"
  /\ exit = "eos"
  /\ sampled = 1
  /\ has_cb
  /\ max_tokens = 0
  /\ ret = <<>>

\* the most tokens a call with this maxTokens may sample
SampleLimit == IF max_tokens > 0 THEN max_tokens ELSE DefaultMaxGen

\* C18: a generate call never samples more than maxTokens tokens, or than 512
\* when maxTokens is zero or negative, and it returns, even when the sampler
\* keeps producing text and nothing stops the loop
C18_TerminatesWithinLimit ==
  /\ [](sampled <= SampleLimit)
  /\ (calls > 0) ~> (pc = "done")

C18_Witness ==
  /\ pc = "done"
  /\ exit = "limit"
  /\ max_tokens <= 0
  /\ sampled = DefaultMaxGen
  /\ Len(ret) = DefaultMaxGen

\* C19: once the text of the tokens generated so far contains a stop marker,
\* the loop has been left: no token is decoded or sampled after the one that
\* completes the marker
C19_MarkerEndsLoop ==
  (pc \in {"decode", "loop", "sample"}) =>
    \A m \in Markers : ~Contains(Concat(pieces_log), m)

\* C20 as claimed: when g_should_stop is set once the token's text has been
\* appended and sent, the loop is left on cancellation, the token not decoded
C20_StopSkipsDecode ==
  [][(pc = "decode" /\ g_should_stop /\ pc' # pc) =>
       (pc' = "flush" /\ exit' = "cancel")]_vars

\* C20: g_should_stop is read in the loop's condition only, before a token
\* is sampled: a token whose text has been appended and sent is passed to
\* llama_decode even with the flag set, and the flag, if still set, ends the
\* loop at the next test of the condition, before another token is sampled
C20_StopCheckedAtLoopHead ==
  [][/\ (pc = "decode" /\ g_should_stop /\ pc' # pc) =>
          \/ pc' = "loop" /\ i' = i + 1
          \/ pc' = "flush" /\ exit' = "decode_fail"
          \/ pc' = "crashed"
     /\ (pc = "loop" /\ g_should_stop /\ pc' # pc) =>
          /\ pc' = "flush"
          /\ exit' \in {"cancel", "limit"}
          /\ sampled' = sampled]_vars

C20_Witness ==
  /\ pc = "flush"
  /\ exit = "cancel"
  /\ g_should_stop
  /\ sampled >= 1
  /\ i = sampled
  /\ sink # <<>>

\* C21: a valid UTF-8 text passed to makeValidUtf8 in two parts, cut at any
\* byte position, with the incomplete_buffer carried from the first call to
\* the second: every returned string is made of whole characters, and after
\* the second call the two returned strings joined are the text and the
\* buffer is empty
C21_TwoPushesReassemble ==
  /\ \A k \in 1..Len(emit_log) : WellFormed(emit_log[k])
  /\ (script = <<>>) =>
       /\ Len(emit_log) = 2
       /\ Concat(emit_log) = Concat(pieces_log)
       /\ utf8_buffer = <<>>

C21_Witness ==
  /\ script = <<>>
  /\ pieces_log = <<<<65, 226>>, <<130, 172>>>>
  /\ emit_log = <<<<65>>, <<226, 130, 172>>>>
  /\ utf8_buffer = <<>>

====
